---- MODULE Spec2Model ----
(***************************************************************************)
(* The chat-session lifecycle (ChatService, AgentService) and the shared   *)
(* matching engine (ChatbotEngine) of the AI-Chatbot application, as a     *)
(* state machine of concurrent request-handling threads.                   *)
(*                                                                         *)
(* Every request runs in its own thread with its own database session:     *)
(* objects added to the database session stay private (pending) until      *)
(* commit, and a commit writes all of them in one transaction.  The        *)
(* engine is one process-wide object whose attributes every thread reads   *)
(* and writes without a lock; each attribute read or write is one step.    *)
(*                                                                         *)
(* The database layer is taken with its defaults: a session per request    *)
(* (the nested application context of _load_knowledge_base has a session   *)
(* of its own), committed rows become visible to every other request at    *)
(* the commit and not before, and a commit expires the loaded objects, so  *)
(* an attribute read after it is loaded again.  An UPDATE carries no       *)
(* version check: it overwrites whatever the row holds.                    *)
(*                                                                         *)
(* Spec is this machine; it knows the engine's attributes only by the      *)
(* knowledge base snapshot they were built from.  EngineSpec is the engine *)
(* alone, called by one thread at a time, on knowledge base rows whose     *)
(* questions are texts: it computes what TfidfVectorizer, cosine_similarity*)
(* and get_response compute.  Weights and similarities are fixed-point     *)
(* numbers: an idf weight in tenths, a similarity in hundredths.           *)
(* HistorySpec is the chat_message table with the timestamp column, which  *)
(* Spec leaves out: rows are written by start_chat_session and             *)
(* send_message and read by get_chat_history through ORDER BY timestamp.   *)
(***************************************************************************)
EXTENDS Integers, Sequences, FiniteSets, TLC

\* Bounds of the model.
MaxSessions == 2
MaxMsgs == 5
MaxVersion == 2
MaxClock == 1
MaxRequests == 4

Threads == {1, 2}
Users == {"u1", "u2"}

VARIABLES
    sessions,           \* chat_session table: id -> row (committed state)
    messages,           \* chat_message table: session id -> rows in insertion order
    kbVersion,          \* knowledge_base table: number of committed mutations
    now,                \* the database clock read by db.func.now()
    vectorizer,         \* ChatbotEngine.vectorizer: what the installed TfidfVectorizer
                        \* object is fitted on (None: a new, unfitted object)
    knowledge_vectors,  \* ChatbotEngine.knowledge_vectors
    questions,          \* ChatbotEngine.questions
    answers,            \* ChatbotEngine.answers
    pc,                 \* per thread: the line its handler is at
    loc,                \* per thread: the handler's local variables
    pending,            \* per thread: rows added to its database session, not committed
    resp,               \* the response of the request that finished last
    nreq,               \* number of requests received so far
    knowledge_base,     \* EngineSpec: the rows of the knowledge_base table
    engine,             \* EngineSpec: the attributes of the ChatbotEngine singleton
    result,             \* EngineSpec: what the last call returned or raised
    chat_message,       \* HistorySpec: the rows of the chat_message table, by id
    clock,              \* HistorySpec: the clock the timestamps are read from
    draft,              \* HistorySpec: rows send_message has added, not committed
    history             \* HistorySpec: what the last get_chat_history returned

vars == <<sessions, messages, kbVersion, now, vectorizer, knowledge_vectors,
          questions, answers, pc, loc, pending, resp, nreq,
          knowledge_base, engine, result, chat_message, clock, draft, history>>

chatVars == <<sessions, messages, kbVersion, now, vectorizer, knowledge_vectors,
              questions, answers, pc, loc, pending, resp, nreq>>
matchVars == <<knowledge_base, engine, result>>
histVars == <<chat_message, clock, draft, history>>

dbVars == <<sessions, messages, kbVersion>>
engineVars == <<vectorizer, knowledge_vectors, questions, answers>>

(***************************************************************************)
(* Values.  An engine attribute is unset (the attribute does not exist on  *)
(* the object), None, an empty list, or a value built from the knowledge   *)
(* base snapshot number v.  A nullable timestamp column is the empty set   *)
(* (NULL) or the singleton of the clock value written.                     *)
(***************************************************************************)
Unset == [st |-> "unset", v |-> 0]
NoneVal == [st |-> "none", v |-> 0]
Empty == [st |-> "empty", v |-> 0]
Val(v) == [st |-> "set", v |-> v]

Null == {}

ACTIVE == "active"
ESCALATED == "escalated"
CLOSED == "closed"

Msg(type, content, trigger) == [type |-> type, content |-> content, trigger |-> trigger]
WelcomeMsg == Msg("bot", "welcome", FALSE)
UserMsg == Msg("user", "text", FALSE)
AgentMsg == Msg("agent", "text", FALSE)

IdleLoc == [op |-> "none", sid |-> 0, uid |-> "none", rd |-> "none", caller |-> "none",
            items |-> NoneVal, fit |-> NoneVal, tv |-> NoneVal, kv |-> NoneVal,
            av |-> NoneVal, content |-> "none", esc |-> FALSE]

NoRet == [op |-> "none", code |-> "none", status |-> "none", esc |-> FALSE,
          content |-> "none", sid |-> 0, uid |-> "none", hist |-> <<>>]

SessionIds == 1..MaxSessions
Exists(sid) == sid \in 1..Len(sessions)

(***************************************************************************)
(* Values of EngineSpec.  An attribute of the engine object does not exist *)
(* (NoAttr), is None, or holds a value; a TfidfVectorizer is new           *)
(* (Unfitted) or holds the list of texts it was fitted on.                 *)
(***************************************************************************)
NoAttr == [st |-> "unset", v |-> <<>>]
NoneAttr == [st |-> "none", v |-> <<>>]
Unfitted == [st |-> "unfitted", v |-> <<>>]
Attr(v) == [st |-> "set", v |-> v]

\* services 18-19: __new__ creates the object and sets no attribute.
FreshEngine == [vectorizer |-> NoAttr, knowledge_vectors |-> NoAttr,
                questions |-> NoAttr, answers |-> NoAttr]

\* get_chat_history has not been called.
NoHistory == [sid |-> 0, rows |-> <<>>]

NoResult == [op |-> "none", code |-> "none", raised |-> "none", input |-> <<>>,
             threshold |-> 0, answer |-> "none", similarity |-> 0, escalate |-> FALSE]

Init ==
    /\ sessions = <<>>
    /\ messages = <<>>
    /\ kbVersion = 0
    /\ now = 0
    /\ vectorizer = Unset
    /\ knowledge_vectors = Unset
    /\ questions = Unset
    /\ answers = Unset
    /\ pc = [t \in Threads |-> "idle"]
    /\ loc = [t \in Threads |-> IdleLoc]
    /\ pending = [t \in Threads |-> <<>>]
    /\ resp = NoRet
    /\ nreq = 0
    /\ knowledge_base = <<>>
    /\ engine = FreshEngine
    /\ result = NoResult
    /\ chat_message = <<>>
    /\ clock = 0
    /\ draft = <<>>
    /\ history = NoHistory

\* A request arrives and is given to the first idle worker thread.
Begin(t) ==
    /\ pc[t] = "idle"
    /\ \A u \in Threads : u < t => pc[u] # "idle"
    /\ nreq < MaxRequests
    /\ nreq' = nreq + 1

\* A request ends: the thread's locals are dropped and its response is sent.
Finish(t, r) ==
    /\ pc' = [pc EXCEPT ![t] = "idle"]
    /\ loc' = [loc EXCEPT ![t] = IdleLoc]
    /\ resp' = r
    /\ UNCHANGED <<matchVars, histVars>>

Goto(t, l) ==
    /\ pc' = [pc EXCEPT ![t] = l]
    /\ UNCHANGED <<matchVars, histVars>>

\* Time passes.  The clock is read only by db.func.now(), so it is advanced only
\* past a value some row already holds: other ticks change nothing a handler sees.
Tick ==
    /\ now < MaxClock
    /\ \E s \in 1..Len(sessions) : now \in sessions[s].escalated_at \cup sessions[s].closed_at
    /\ now' = now + 1
    /\ UNCHANGED <<sessions, messages, kbVersion, engineVars, pc, loc, pending, resp, nreq>>
    /\ UNCHANGED <<matchVars, histVars>>

(***************************************************************************)
(* customer_dashboard and ChatService.start_chat_session                   *)
(***************************************************************************)
\* controllers 24-30: look for the user's session with status 'active'.
customer_dashboard(t) ==
    /\ Begin(t)
    /\ \E u \in Users :
        LET act == {s \in 1..Len(sessions) :
                       sessions[s].user = u /\ sessions[s].status = ACTIVE}
        IN  IF act # {}
            THEN /\ \E s \in act :
                      Finish(t, [NoRet EXCEPT !.op = "dashboard", !.code = "200", !.sid = s])
                 /\ UNCHANGED <<dbVars, now, engineVars, pending>>
            ELSE /\ Goto(t, "ss97")
                 /\ loc' = [loc EXCEPT ![t].uid = u]
                 /\ UNCHANGED <<dbVars, now, engineVars, pending, resp>>

\* services 92-98: insert the session row with status 'active' and commit.
start_chat_session_98(t) ==
    /\ pc[t] = "ss97"
    /\ Len(sessions) < MaxSessions
    /\ sessions' = Append(sessions, [user |-> loc[t].uid, status |-> ACTIVE,
                                     escalated_at |-> Null, closed_at |-> Null])
    /\ messages' = Append(messages, <<>>)
    /\ loc' = [loc EXCEPT ![t].sid = Len(sessions) + 1]
    /\ Goto(t, "ss101")
    /\ UNCHANGED <<kbVersion, now, engineVars, pending, resp>>
    /\ UNCHANGED nreq

\* services 101-109: insert the welcome message and commit.
start_chat_session_107(t) ==
    /\ pc[t] = "ss101"
    /\ messages' = [messages EXCEPT ![loc[t].sid] = Append(@, WelcomeMsg)]
    /\ Finish(t, [NoRet EXCEPT !.op = "dashboard", !.code = "200", !.sid = loc[t].sid])
    /\ UNCHANGED <<sessions, kbVersion, now, engineVars, pending>>
    /\ UNCHANGED nreq

\* Variant of SessionAdd: the row is written to the table at once (autocommit).
SessionAddAutocommit(t, sid, row) ==
    /\ messages' = [messages EXCEPT ![sid] = Append(@, row)]
    /\ UNCHANGED pending

\* db.session.add(row): the row joins the request's database session; nothing is
\* written to the table before the commit.
SessionAdd(t, sid, row) ==
    /\ pending' = [pending EXCEPT ![t] = Append(@, row)]
    /\ UNCHANGED messages

(***************************************************************************)
(* An exception leaves the handler: Flask answers 500 and the request's    *)
(* database session is rolled back (app.py internal_error, and the         *)
(* session's removal at the end of the request), so its pending rows are   *)
(* discarded.                                                              *)
(***************************************************************************)
Raise(t, cause) ==
    /\ Finish(t, [NoRet EXCEPT !.op = loc[t].op, !.code = "500", !.content = cause,
                               !.sid = loc[t].sid])
    /\ pending' = [pending EXCEPT ![t] = <<>>]

(***************************************************************************)
(* ChatbotEngine._initialize and _load_knowledge_base (services 22-48).    *)
(* loc[t].caller is where the call returns to: get_response (lazy         *)
(* initialization, line 54) or retrain_model (line 74).                    *)
(***************************************************************************)
\* line 24: self.vectorizer = TfidfVectorizer(...), a new unfitted object.
initialize_24(t) ==
    /\ pc[t] = "in24"
    /\ vectorizer' = NoneVal
    /\ Goto(t, "in29")
    /\ UNCHANGED <<dbVars, now, knowledge_vectors, questions, answers,
                   loc, pending, resp>>
    /\ UNCHANGED nreq

\* line 29: self.knowledge_vectors = None
initialize_29(t) ==
    /\ pc[t] = "in29"
    /\ knowledge_vectors' = NoneVal
    /\ Goto(t, "in30")
    /\ UNCHANGED <<dbVars, now, vectorizer, questions, answers,
                   loc, pending, resp>>
    /\ UNCHANGED nreq

\* line 30: self.questions = []
initialize_30(t) ==
    /\ pc[t] = "in30"
    /\ questions' = Empty
    /\ Goto(t, "in31")
    /\ UNCHANGED <<dbVars, now, vectorizer, knowledge_vectors, answers,
                   loc, pending, resp>>
    /\ UNCHANGED nreq

\* line 31: self.answers = []
initialize_31(t) ==
    /\ pc[t] = "in31"
    /\ answers' = Empty
    /\ Goto(t, "lk38")
    /\ UNCHANGED <<dbVars, now, vectorizer, knowledge_vectors, questions,
                   loc, pending, resp>>
    /\ UNCHANGED nreq

\* line 38: read the active knowledge items (the committed snapshot).
load_knowledge_base_38(t) ==
    /\ pc[t] = "lk38"
    /\ loc' = [loc EXCEPT ![t].items = Val(kbVersion)]
    /\ Goto(t, "lk44")
    /\ UNCHANGED <<dbVars, now, engineVars, pending, resp>>
    /\ UNCHANGED nreq

\* lines 41/44: self.questions = the questions of the items read.
load_knowledge_base_44(t) ==
    /\ pc[t] = "lk44"
    /\ questions' = loc[t].items
    /\ Goto(t, "lk45")
    /\ UNCHANGED <<dbVars, now, vectorizer, knowledge_vectors, answers,
                   loc, pending, resp>>
    /\ UNCHANGED nreq

\* lines 42/45: self.answers = the answers of the items read.
load_knowledge_base_45(t) ==
    /\ pc[t] = "lk45"
    /\ answers' = loc[t].items
    /\ loc' = [loc EXCEPT ![t].items = NoneVal]
    /\ Goto(t, "lk47")
    /\ UNCHANGED <<dbVars, now, vectorizer, knowledge_vectors, questions,
                   pending, resp>>
    /\ UNCHANGED nreq

\* Where _initialize returns to.
InitReturn(t) ==
    IF loc[t].caller = "query" THEN "gr56" ELSE "rt74"

\* line 47: if self.questions: (the attribute is read again here).
load_knowledge_base_47(t) ==
    /\ pc[t] = "lk47"
    /\ Goto(t, IF questions.st = "set" THEN "lk48" ELSE InitReturn(t))
    /\ UNCHANGED <<dbVars, now, engineVars, loc, pending, resp>>
    /\ UNCHANGED nreq

\* line 48, right-hand side: self.vectorizer.fit_transform(self.questions) fits the
\* vectorizer object installed at this moment on the list installed at this moment;
\* an empty list makes fit_transform raise ValueError (empty vocabulary).
load_knowledge_base_48_fit(t) ==
    /\ pc[t] = "lk48"
    /\ IF questions.st = "set"
       THEN /\ vectorizer' = questions
            /\ loc' = [loc EXCEPT ![t].fit = questions]
            /\ Goto(t, "lk48w")
            /\ UNCHANGED <<pending, resp>>
       ELSE /\ Raise(t, "ValueError")
            /\ UNCHANGED vectorizer
    /\ UNCHANGED <<dbVars, now, knowledge_vectors, questions, answers>>
    /\ UNCHANGED nreq

\* line 48, assignment: self.knowledge_vectors = the matrix just computed.
load_knowledge_base_48_store(t) ==
    /\ pc[t] = "lk48w"
    /\ knowledge_vectors' = loc[t].fit
    /\ loc' = [loc EXCEPT ![t].fit = NoneVal]
    /\ Goto(t, InitReturn(t))
    /\ UNCHANGED <<dbVars, now, vectorizer, questions, answers,
                   pending, resp>>
    /\ UNCHANGED nreq

(***************************************************************************)
(* ChatbotEngine.get_response (services 50-70), called by send_message.    *)
(***************************************************************************)
\* line 53: if self.knowledge_vectors is None: self._initialize().  On an engine on
\* which _initialize never ran the attribute does not exist: AttributeError.
get_response_53(t) ==
    /\ pc[t] = "gr53"
    /\ CASE knowledge_vectors.st = "unset" ->
                /\ Raise(t, "AttributeError")
         [] knowledge_vectors.st = "none" ->
                /\ Goto(t, "in24")
                /\ loc' = [loc EXCEPT ![t].caller = "query"]
                /\ UNCHANGED <<pending, resp>>
         [] OTHER ->
                /\ Goto(t, "gr56")
                /\ UNCHANGED <<loc, pending, resp>>
    /\ UNCHANGED <<dbVars, now, engineVars>>
    /\ UNCHANGED nreq

\* lines 56-57: no questions or no vectors: the "still learning" answer, escalate.
get_response_56(t) ==
    /\ pc[t] = "gr56"
    /\ IF questions.st # "set" \/ knowledge_vectors.st # "set"
       THEN /\ loc' = [loc EXCEPT ![t].content = "learning", ![t].esc = TRUE]
            /\ Goto(t, "sm130")
       ELSE /\ Goto(t, "gr60")
            /\ UNCHANGED loc
    /\ UNCHANGED <<dbVars, now, engineVars, pending, resp>>
    /\ UNCHANGED nreq

\* line 60: self.vectorizer.transform([user_input]); an unfitted vectorizer raises
\* NotFittedError.  tv is the snapshot whose vocabulary the input vector is in.
get_response_60(t) ==
    /\ pc[t] = "gr60"
    /\ IF vectorizer.st = "set"
       THEN /\ loc' = [loc EXCEPT ![t].tv = vectorizer]
            /\ Goto(t, "gr63")
            /\ UNCHANGED <<pending, resp>>
       ELSE /\ Raise(t, "NotFittedError")
    /\ UNCHANGED <<dbVars, now, engineVars>>
    /\ UNCHANGED nreq

\* lines 63-67: cosine_similarity(input_vector, self.knowledge_vectors), max, argmax,
\* and the threshold decision.
\* Whether the maximum reaches the threshold depends on the message text (hit).
\* With knowledge_vectors None, cosine_similarity compares the input with itself.
\* With vectors of another snapshot the dimensions may differ (ValueError) or agree.
get_response_63(t) ==
    /\ pc[t] = "gr63"
    /\ \E hit \in BOOLEAN, samedim \in BOOLEAN :
        IF knowledge_vectors.st = "set" /\ knowledge_vectors # loc[t].tv /\ ~samedim
        THEN Raise(t, "ValueError")
        ELSE /\ loc' = [loc EXCEPT ![t].kv = knowledge_vectors,
                                   ![t].content = IF hit THEN "none" ELSE "fallback",
                                   ![t].esc = ~hit]
             /\ Goto(t, IF hit THEN "gr68" ELSE "sm130")
             /\ UNCHANGED <<pending, resp>>
    /\ UNCHANGED <<dbVars, now, engineVars>>
    /\ UNCHANGED nreq

\* line 68: return self.answers[best_match_idx], ..., False; an empty list raises
\* IndexError.
get_response_68(t) ==
    /\ pc[t] = "gr68"
    /\ IF answers.st = "set"
       THEN /\ loc' = [loc EXCEPT ![t].av = answers, ![t].content = "answer"]
            /\ Goto(t, "sm130")
            /\ UNCHANGED <<pending, resp>>
       ELSE /\ Raise(t, "IndexError")
    /\ UNCHANGED <<dbVars, now, engineVars>>
    /\ UNCHANGED nreq

(***************************************************************************)
(* ChatService.send_message (services 111-151) behind the send_message     *)
(* route (controllers 35-50).                                              *)
(***************************************************************************)
\* Variant of FindSession: the lookup forgets the user_id filter.
FindSessionAnyOwner(sid, uid) == Exists(sid)

\* line 113: ChatSession.query.filter_by(session_id=session_id, user_id=user_id).first()
FindSession(sid, uid) == Exists(sid) /\ sessions[sid].user = uid

\* Variant of Escalates: the engine's flag is ignored.
EscalatesAlways(esc, rd) == rd = ACTIVE

\* Variant of Escalates: escalation is evaluated again on an escalated session.
EscalatesAgain(esc, rd) == esc /\ rd # CLOSED

\* line 139: if needs_escalation and session.status == 'active'; session.status is
\* the value loaded at line 113.
Escalates(esc, rd) == esc /\ rd = ACTIVE

\* controllers 42-50 and services 113-123: missing parameters answer 400; no session
\* with this id and owner answers 404; otherwise the USER message is added to the
\* database session (not committed) and the engine is asked.
send_message_113(t) ==
    /\ Begin(t)
    /\ \E sid \in SessionIds, uid \in Users, params \in BOOLEAN :
        IF ~params
        THEN /\ Finish(t, [NoRet EXCEPT !.op = "send", !.code = "400"])
             /\ UNCHANGED <<pending, messages>>
        ELSE IF ~FindSession(sid, uid)
        THEN /\ Finish(t, [NoRet EXCEPT !.op = "send", !.code = "404", !.sid = sid,
                                        !.uid = uid])
             /\ UNCHANGED <<pending, messages>>
        ELSE /\ Len(messages[sid]) + 2 <= MaxMsgs
             /\ loc' = [loc EXCEPT ![t].op = "send", ![t].sid = sid, ![t].uid = uid,
                                   ![t].rd = sessions[sid].status]
             /\ SessionAdd(t, sid, UserMsg)
             /\ Goto(t, "gr53")
             /\ UNCHANGED resp
    /\ UNCHANGED <<sessions, kbVersion, now, engineVars>>

\* lines 130-136: the BOT message is added to the database session (not committed).
send_message_136(t) ==
    /\ pc[t] = "sm130"
    /\ SessionAdd(t, loc[t].sid, Msg("bot", loc[t].content, loc[t].esc))
    /\ Goto(t, "sm139")
    /\ UNCHANGED <<sessions, kbVersion, now, engineVars, loc, resp>>
    /\ UNCHANGED nreq

\* lines 139-143: the status change, then one commit that writes the pending
\* messages and, if the status was changed, UPDATEs the session row.
send_message_143(t) ==
    /\ pc[t] = "sm139"
    /\ Len(messages[loc[t].sid]) + Len(pending[t]) <= MaxMsgs
    /\ messages' = [messages EXCEPT ![loc[t].sid] = @ \o pending[t]]
    /\ sessions' = IF Escalates(loc[t].esc, loc[t].rd)
                   THEN [sessions EXCEPT ![loc[t].sid].status = ESCALATED,
                                         ![loc[t].sid].escalated_at = {now}]
                   ELSE sessions
    /\ pending' = [pending EXCEPT ![t] = <<>>]
    /\ Goto(t, "sm145")
    /\ UNCHANGED <<kbVersion, now, engineVars, loc, resp>>
    /\ UNCHANGED nreq

\* lines 145-151: the result; the commit expired the session object, so
\* session.status is loaded again from the database here.
send_message_150(t) ==
    /\ pc[t] = "sm145"
    /\ Finish(t, [NoRet EXCEPT !.op = "send", !.code = "200", !.sid = loc[t].sid,
                               !.status = sessions[loc[t].sid].status,
                               !.esc = loc[t].esc, !.content = loc[t].content,
                               !.uid = loc[t].uid])
    /\ UNCHANGED <<dbVars, now, engineVars, pending>>
    /\ UNCHANGED nreq

(***************************************************************************)
(* ChatService.get_chat_history (services 153-168, controllers 52-60)      *)
(***************************************************************************)
get_chat_history(t) ==
    /\ Begin(t)
    /\ \E sid \in SessionIds, uid \in Users :
        Finish(t, [NoRet EXCEPT !.op = "history", !.code = "200", !.sid = sid,
                                !.uid = uid,
                                !.hist = IF FindSession(sid, uid)
                                         THEN messages[sid] ELSE <<>>])
    /\ UNCHANGED <<dbVars, now, engineVars, pending>>

(***************************************************************************)
(* AgentService.send_agent_message (services 179-192, controllers 142-160) *)
(***************************************************************************)
\* Variant of AgentAllowed: only closed sessions are refused.
AgentAllowedUnlessClosed(sid) == Exists(sid) /\ sessions[sid].status # CLOSED

\* line 182: if not session or session.status != 'escalated': return False
AgentAllowed(sid) == Exists(sid) /\ sessions[sid].status = ESCALATED

\* lines 181-183
send_agent_message_181(t) ==
    /\ Begin(t)
    /\ \E sid \in SessionIds :
        IF AgentAllowed(sid)
        THEN /\ Len(messages[sid]) < MaxMsgs
             /\ loc' = [loc EXCEPT ![t].op = "agent", ![t].sid = sid,
                                   ![t].rd = sessions[sid].status]
             /\ SessionAdd(t, sid, AgentMsg)
             /\ Goto(t, "ag191")
             /\ UNCHANGED resp
        ELSE /\ Finish(t, [NoRet EXCEPT !.op = "agent", !.code = "400", !.sid = sid])
             /\ UNCHANGED <<pending, messages>>
    /\ UNCHANGED <<sessions, kbVersion, now, engineVars>>

\* lines 185-192: add the AGENT message, commit, return True.
send_agent_message_191(t) ==
    /\ pc[t] = "ag191"
    /\ Len(messages[loc[t].sid]) + Len(pending[t]) <= MaxMsgs
    /\ messages' = [messages EXCEPT ![loc[t].sid] = @ \o pending[t]]
    /\ pending' = [pending EXCEPT ![t] = <<>>]
    /\ Finish(t, [NoRet EXCEPT !.op = "agent", !.code = "200", !.sid = loc[t].sid,
                               !.status = loc[t].rd])
    /\ UNCHANGED <<sessions, kbVersion, now, engineVars>>
    /\ UNCHANGED nreq

(***************************************************************************)
(* AgentService.close_session (services 194-202, controllers 162-179)      *)
(***************************************************************************)
\* Variant of CloseWrite: closing a session that is already closed opens it again.
CloseWriteToggle(row) ==
    [row EXCEPT !.status = IF row.status = CLOSED THEN ACTIVE ELSE CLOSED,
                !.closed_at = {now}]

\* lines 198-199: session.status = 'closed'; session.closed_at = db.func.now()
CloseWrite(row) == [row EXCEPT !.status = CLOSED, !.closed_at = {now}]

\* lines 196-197 and 202: load the session by id; none: return False.
close_session_196(t) ==
    /\ Begin(t)
    /\ \E sid \in SessionIds :
        IF Exists(sid)
        THEN /\ loc' = [loc EXCEPT ![t].op = "close", ![t].sid = sid,
                                   ![t].rd = sessions[sid].status]
             /\ Goto(t, "cl198")
             /\ UNCHANGED resp
        ELSE Finish(t, [NoRet EXCEPT !.op = "close", !.code = "400", !.sid = sid])
    /\ UNCHANGED <<dbVars, now, engineVars, pending>>

\* lines 198-201: write status and closed_at, commit, return True.
close_session_200(t) ==
    /\ pc[t] = "cl198"
    /\ sessions' = [sessions EXCEPT ![loc[t].sid] = CloseWrite(@)]
    /\ Finish(t, [NoRet EXCEPT !.op = "close", !.code = "200", !.sid = loc[t].sid,
                               !.status = loc[t].rd])
    /\ UNCHANGED <<messages, kbVersion, now, engineVars, pending>>
    /\ UNCHANGED nreq

(***************************************************************************)
(* manage_knowledge_base POST/PUT/DELETE (controllers 223-273) and         *)
(* ChatbotEngine.retrain_model (services 72-74)                            *)
(***************************************************************************)
\* controllers 231-237: commit the mutation, then chatbot.retrain_model().
manage_knowledge_base_232(t) ==
    /\ Begin(t)
    /\ kbVersion < MaxVersion
    /\ kbVersion' = kbVersion + 1
    /\ loc' = [loc EXCEPT ![t].op = "admin", ![t].caller = "retrain"]
    /\ Goto(t, "in24")
    /\ UNCHANGED <<sessions, messages, now, engineVars, pending, resp>>

\* services 74 returned, controllers 239: the request answers success.
retrain_model_74(t) ==
    /\ pc[t] = "rt74"
    /\ Finish(t, [NoRet EXCEPT !.op = "admin", !.code = "200"])
    /\ UNCHANGED <<dbVars, now, engineVars, pending>>
    /\ UNCHANGED nreq

Step(t) ==
    \/ customer_dashboard(t)
    \/ start_chat_session_98(t)
    \/ start_chat_session_107(t)
    \/ send_message_113(t)
    \/ get_response_53(t)
    \/ get_response_56(t)
    \/ get_response_60(t)
    \/ get_response_63(t)
    \/ get_response_68(t)
    \/ send_message_136(t)
    \/ send_message_143(t)
    \/ send_message_150(t)
    \/ get_chat_history(t)
    \/ send_agent_message_181(t)
    \/ send_agent_message_191(t)
    \/ close_session_196(t)
    \/ close_session_200(t)
    \/ manage_knowledge_base_232(t)
    \/ initialize_24(t)
    \/ initialize_29(t)
    \/ initialize_30(t)
    \/ initialize_31(t)
    \/ load_knowledge_base_38(t)
    \/ load_knowledge_base_44(t)
    \/ load_knowledge_base_45(t)
    \/ load_knowledge_base_47(t)
    \/ load_knowledge_base_48_fit(t)
    \/ load_knowledge_base_48_store(t)
    \/ retrain_model_74(t)

Next == Tick \/ \E t \in Threads : Step(t)

Spec == Init /\ [][Next]_vars

(***************************************************************************)
(* EngineSpec: the texts.  A text is the sequence of its lower-cased word  *)
(* tokens.  Admins write questions and customers write messages from       *)
(* Texts; "the" is a word of the English stop-word list.                   *)
(***************************************************************************)
MaxEntries == 2

\* services 50: the default of get_response's threshold, in hundredths.
threshold == 30

Texts == {<<"hello">>, <<"refund">>, <<"the">>, <<"the", "refund">>, <<"refund", "hello">>}
Answers == {"a1", "a2"}
Thresholds == {threshold, 100}

\* services 26: stop_words='english'.
StopWords == {"the"}

\* services 41-42: the built-in greeting pairs.
GreetingQuestions == << <<"hello">>, <<"hi">>, <<"greetings">> >>
GreetingAnswers == <<"greet1", "greet2", "greet3">>

NotStopWord(w) == w \notin StopWords

\* The analyzer of TfidfVectorizer: the stop words are removed from the tokens,
\* then the unigrams and the bigrams of what is left are the terms
\* (services 26-27: stop_words='english', ngram_range=(1, 2)).
Ngrams(text) ==
    LET tk == SelectSeq(text, NotStopWord)
    IN  [i \in 1..Len(tk) |-> <<tk[i]>>] \o
        [i \in 1..(Len(tk) - 1) |-> <<tk[i], tk[i + 1]>>]

\* The term frequency: how often the term occurs among the n-grams of the text.
Count(term, text) ==
    LET ng == Ngrams(text) IN Cardinality({i \in DOMAIN ng : ng[i] = term})

\* fit: the vocabulary is the set of the terms of the documents.  (max_features=1000,
\* services 25, cuts nothing: no list of documents here has that many terms.)
Vocabulary(docs) ==
    UNION {LET ng == Ngrams(docs[i]) IN {ng[j] : j \in DOMAIN ng} : i \in DOMAIN docs}

\* The document frequency of a term.
Df(term, docs) == Cardinality({i \in DOMAIN docs : Count(term, docs[i]) > 0})

\* The smoothed idf of TfidfVectorizer, ln((1 + n) / (1 + df)) + 1, in tenths.
IdfTenths(n, df) ==
    CASE df = n -> 10
      [] <<n, df>> = <<2, 1>> -> 14
      [] <<n, df>> = <<3, 1>> -> 17
      [] <<n, df>> = <<3, 2>> -> 13
      [] <<n, df>> = <<4, 1>> -> 19
      [] <<n, df>> = <<4, 2>> -> 15
      [] <<n, df>> = <<4, 3>> -> 12

\* transform: the tf-idf vector of a text over the vocabulary fitted on docs; terms
\* outside the vocabulary are dropped.  (The l2 normalisation is left to Cosine.)
Transform(docs, text) ==
    [term \in Vocabulary(docs) |-> Count(term, text) * IdfTenths(Len(docs), Df(term, docs))]

\* fit_transform: one vector per document.
FitTransform(docs) == [i \in DOMAIN docs |-> Transform(docs, docs[i])]

RECURSIVE SumOver(_, _)
SumOver(S, f) ==
    IF S = {} THEN 0
    ELSE LET x == CHOOSE y \in S : TRUE IN f[x] + SumOver(S \ {x}, f)

Dot(a, b) == SumOver(DOMAIN a, [term \in DOMAIN a |-> a[term] * b[term]])

\* The least r in lo+1..hi with r * r >= x, given lo * lo < x <= hi * hi.
RECURSIVE RootUp(_, _, _)
RootUp(lo, hi, x) ==
    IF hi - lo <= 1 THEN hi
    ELSE LET mid == (lo + hi) \div 2
         IN  IF mid * mid >= x THEN RootUp(lo, mid, x) ELSE RootUp(mid, hi, x)

\* cosine_similarity of two vectors, in hundredths, rounded down; a zero vector
\* stays zero under normalisation, so its similarity to anything is 0.
Cosine(a, b) ==
    LET na == Dot(a, a)
        nb == Dot(b, b)
    IN  IF na = 0 \/ nb = 0 THEN 0
        ELSE (100 * Dot(a, b)) \div RootUp(0, IF na > nb THEN na ELSE nb, na * nb)

(***************************************************************************)
(* EngineSpec: ChatbotEngine run by one thread at a time (services 22-74)  *)
(* and the knowledge base routes (controllers 223-273).                    *)
(***************************************************************************)
IsActive(row) == row.is_active

\* services 38: KnowledgeBase.query.filter_by(is_active=True).all()
ActiveItems(rows) == SelectSeq(rows, IsActive)

\* Variant of LoadedQuestions: no greeting is substituted for an empty list.
LoadedQuestionsNoGreeting(items) == [i \in DOMAIN items |-> items[i].question]

\* services 40-45: the questions of the items read, or the built-in greetings.
LoadedQuestions(items) ==
    IF items = <<>> THEN GreetingQuestions
    ELSE [i \in DOMAIN items |-> items[i].question]

\* services 40-45: the answers of the items read, or the built-in greetings.
LoadedAnswers(items) ==
    IF items = <<>> THEN GreetingAnswers
    ELSE [i \in DOMAIN items |-> items[i].answer]

\* services 22-48, _initialize and _load_knowledge_base on the committed rows: the
\* four attributes are reset, the questions and answers are loaded, and if there is
\* a question the vectorizer is fitted and the vectors are stored.  fit_transform
\* raises ValueError on an empty vocabulary (only stop words): the exception leaves
\* _initialize with the attributes as assigned so far.
Initialize(rows) ==
    LET items == ActiveItems(rows)
        qs == LoadedQuestions(items)
        loaded == [vectorizer |-> Unfitted, knowledge_vectors |-> NoneAttr,
                   questions |-> Attr(qs), answers |-> Attr(LoadedAnswers(items))]
    IN  IF qs = <<>> THEN [engine |-> loaded, raised |-> "none"]
        ELSE IF Vocabulary(qs) = {} THEN [engine |-> loaded, raised |-> "ValueError"]
        ELSE [engine |-> [loaded EXCEPT !.vectorizer = Attr(qs),
                                        !.knowledge_vectors = Attr(FitTransform(qs))],
              raised |-> "none"]

\* services 63: the similarity of the input to every stored vector.
Similarities(e, user_input) ==
    LET input_vector == Transform(e.vectorizer.v, user_input)
    IN  [i \in DOMAIN e.knowledge_vectors.v |->
            Cosine(input_vector, e.knowledge_vectors.v[i])]

\* services 64: np.max
MaxOf(sims) == CHOOSE m \in {sims[i] : i \in DOMAIN sims} : \A i \in DOMAIN sims : sims[i] <= m

\* Variant of ArgMax: the last index of the maximum.
ArgMaxLast(sims) ==
    CHOOSE i \in DOMAIN sims :
        sims[i] = MaxOf(sims) /\ \A j \in DOMAIN sims : j > i => sims[j] # MaxOf(sims)

\* services 65: np.argmax, the first index of the maximum.
ArgMax(sims) ==
    CHOOSE i \in DOMAIN sims :
        sims[i] = MaxOf(sims) /\ \A j \in DOMAIN sims : j < i => sims[j] # MaxOf(sims)

\* services 56-70 on an engine e whose attributes exist.
Respond(e, user_input, th) ==
    LET sims == Similarities(e, user_input)
        q == [NoResult EXCEPT !.op = "query", !.code = "200", !.input = user_input,
                              !.threshold = th]
    IN  IF e.questions.v = <<>> \/ e.knowledge_vectors.st = "none"
        THEN [q EXCEPT !.answer = "learning", !.escalate = TRUE]
        ELSE IF MaxOf(sims) >= th
        THEN [q EXCEPT !.answer = e.answers.v[ArgMax(sims)], !.similarity = MaxOf(sims)]
        ELSE [q EXCEPT !.answer = "fallback", !.similarity = MaxOf(sims),
                       !.escalate = TRUE]

\* services 50-70: get_response(user_input, threshold).  Reading knowledge_vectors
\* on an engine that has no such attribute raises AttributeError (line 53); None
\* makes it run _initialize first (line 54), whose exception is get_response's.
get_response(user_input, th) ==
    /\ result = NoResult
    /\ LET failed == [NoResult EXCEPT !.op = "query", !.code = "500",
                                      !.input = user_input, !.threshold = th]
           init == Initialize(knowledge_base)
       IN  CASE engine.knowledge_vectors.st = "unset" ->
                    /\ result' = [failed EXCEPT !.raised = "AttributeError"]
                    /\ UNCHANGED engine
             [] engine.knowledge_vectors.st = "none" ->
                    /\ engine' = init.engine
                    /\ result' = IF init.raised # "none"
                                 THEN [failed EXCEPT !.raised = init.raised]
                                 ELSE Respond(init.engine, user_input, th)
             [] OTHER ->
                    /\ result' = Respond(engine, user_input, th)
                    /\ UNCHANGED engine
    /\ UNCHANGED <<knowledge_base, chatVars, histVars>>

\* Variant of Retrained: the route answers without calling retrain_model.
NotRetrained(rows) ==
    /\ result' = [NoResult EXCEPT !.op = "admin", !.code = "200"]
    /\ UNCHANGED engine

\* services 72-74 called at controllers 235-239, 253-257, 268-272 after the commit:
\* retrain_model on the rows as committed; an exception answers 500.
Retrained(rows) ==
    LET init == Initialize(rows)
    IN  /\ engine' = init.engine
        /\ result' = IF init.raised = "none"
                     THEN [NoResult EXCEPT !.op = "admin", !.code = "200"]
                     ELSE [NoResult EXCEPT !.op = "admin", !.code = "500",
                                           !.raised = init.raised]

\* A request for an item that does not exist answers 404 (controllers 258, 273).
NotFound ==
    /\ result' = [NoResult EXCEPT !.op = "admin", !.code = "404"]
    /\ UNCHANGED <<knowledge_base, engine>>

\* controllers 223-239: POST adds an item (active), commits and retrains.
manage_knowledge_base_POST ==
    /\ result = NoResult
    /\ Len(knowledge_base) < MaxEntries
    /\ \E q \in Texts, a \in Answers :
          /\ knowledge_base' = Append(knowledge_base,
                                      [question |-> q, answer |-> a, is_active |-> TRUE])
          /\ Retrained(knowledge_base')
    /\ UNCHANGED <<chatVars, histVars>>

\* controllers 241-258: PUT rewrites an item, commits and retrains.
manage_knowledge_base_PUT ==
    /\ result = NoResult
    /\ \E id \in 1..MaxEntries, q \in Texts, a \in Answers, act \in BOOLEAN :
          IF id \in DOMAIN knowledge_base
          THEN /\ knowledge_base' = [knowledge_base EXCEPT
                                        ![id] = [question |-> q, answer |-> a,
                                                 is_active |-> act]]
               /\ Retrained(knowledge_base')
          ELSE NotFound
    /\ UNCHANGED <<chatVars, histVars>>

\* controllers 260-273: DELETE removes an item, commits and retrains.
manage_knowledge_base_DELETE ==
    /\ result = NoResult
    /\ \E id \in 1..MaxEntries :
          IF id \in DOMAIN knowledge_base
          THEN /\ knowledge_base' = [i \in 1..(Len(knowledge_base) - 1) |->
                                        IF i < id THEN knowledge_base[i]
                                        ELSE knowledge_base[i + 1]]
               /\ Retrained(knowledge_base')
          ELSE NotFound
    /\ UNCHANGED <<chatVars, histVars>>

\* The engine serves one call at a time here: the response of a call is delivered
\* (and forgotten) before the next call.
NextCall ==
    /\ result # NoResult
    /\ result' = NoResult
    /\ UNCHANGED <<knowledge_base, engine, chatVars, histVars>>

EngineNext ==
    \/ manage_knowledge_base_POST
    \/ manage_knowledge_base_PUT
    \/ manage_knowledge_base_DELETE
    \/ \E user_input \in Texts, th \in Thresholds : get_response(user_input, th)
    \/ NextCall

EngineSpec == Init /\ [][EngineNext]_vars

(***************************************************************************)
(* HistorySpec: the chat_message table with its timestamp column, written  *)
(* by one request at a time.  The column's definition is in models.py;     *)
(* here a row's timestamp is the clock's value when the row is created, so *)
(* two rows created without a tick between them carry the same timestamp.  *)
(***************************************************************************)
MaxRows == 4
MaxTime == 1

\* A new ChatMessage row: its id is its place in creation order, its timestamp the
\* clock's value.
NewMessage(id, sid, type) ==
    [id |-> id, session_id |-> sid, message_type |-> type, timestamp |-> clock]

\* ChatMessage.query.filter_by(session_id=...) (services 159).
RowsOf(sid) == SelectSeq(chat_message, LAMBDA row : row.session_id = sid)

\* .order_by(ChatMessage.timestamp).all() (services 159): the rows sorted by
\* timestamp alone.  ORDER BY leaves the order of rows with equal keys to the
\* database, so every sorted arrangement is a possible answer.
OrderByTimestamp(rows) ==
    {[i \in DOMAIN rows |-> rows[p[i]]] : p \in
        {q \in Permutations(DOMAIN rows) :
            \A i, j \in DOMAIN rows :
                i < j => rows[q[i]].timestamp <= rows[q[j]].timestamp}}

\* The clock advances.
h_tick ==
    /\ clock < MaxTime
    /\ clock' = clock + 1
    /\ UNCHANGED <<chat_message, draft, history, chatVars, matchVars>>

\* services 101-107: start_chat_session stores the welcome message of a new session.
h_start_chat_session(sid) ==
    /\ draft = <<>>
    /\ RowsOf(sid) = <<>>
    /\ Len(chat_message) < MaxRows
    /\ chat_message' = Append(chat_message, NewMessage(Len(chat_message) + 1, sid, "bot"))
    /\ UNCHANGED <<clock, draft, history, chatVars, matchVars>>

\* services 118-123: send_message creates and adds the USER message.
h_send_message_123(sid) ==
    /\ draft = <<>>
    /\ RowsOf(sid) # <<>>
    /\ Len(chat_message) + 2 <= MaxRows
    /\ draft' = <<NewMessage(Len(chat_message) + 1, sid, "user")>>
    /\ UNCHANGED <<chat_message, clock, history, chatVars, matchVars>>

\* services 126-127 raise: the request ends and the USER message is rolled back.
h_send_message_raise ==
    /\ Len(draft) = 1
    /\ draft' = <<>>
    /\ UNCHANGED <<chat_message, clock, history, chatVars, matchVars>>

\* services 130-136: get_response returned; the BOT message is created and added.
h_send_message_136 ==
    /\ Len(draft) = 1
    /\ draft' = Append(draft, NewMessage(Len(chat_message) + 2, draft[1].session_id, "bot"))
    /\ UNCHANGED <<chat_message, clock, history, chatVars, matchVars>>

\* services 143: the commit writes both rows.
h_send_message_143 ==
    /\ Len(draft) = 2
    /\ chat_message' = chat_message \o draft
    /\ draft' = <<>>
    /\ UNCHANGED <<clock, history, chatVars, matchVars>>

\* services 153-168: get_chat_history of the session's owner.
h_get_chat_history(sid) ==
    /\ \E rows \in OrderByTimestamp(RowsOf(sid)) :
          history' = [sid |-> sid, rows |-> rows]
    /\ UNCHANGED <<chat_message, clock, draft, chatVars, matchVars>>

HistoryNext ==
    \/ h_tick
    \/ \E sid \in SessionIds : h_start_chat_session(sid)
    \/ \E sid \in SessionIds : h_send_message_123(sid)
    \/ h_send_message_raise
    \/ h_send_message_136
    \/ h_send_message_143
    \/ \E sid \in SessionIds : h_get_chat_history(sid)

HistorySpec == Init /\ [][HistoryNext]_vars

(***************************************************************************)
(* Properties                                                              *)
(***************************************************************************)
Status(s) == sessions[s].status
Last(q) == q[Len(q)]

\* Thread t takes the step from line a to line b.
Moves(t, a, b) == pc[t] = a /\ pc'[t] = b

\* A request is received and answered in one step.
Answered(op) == nreq' # nreq /\ pc' = pc /\ resp'.op = op

\* C1: once a session's status has been ESCALATED or CLOSED it is never ACTIVE
\* again, whatever requests follow and whatever the engine answers.
C1_Monotonic ==
    [][\A s \in 1..Len(sessions) : Status(s) # ACTIVE => sessions'[s].status # ACTIVE]_vars

\* C1 witness: a close has acted on a session that had been escalated.
C1_Witness ==
    \E s \in 1..Len(sessions) :
        /\ Status(s) = CLOSED
        /\ sessions[s].escalated_at # Null
        /\ resp.op = "close" /\ resp.sid = s /\ resp.code = "200"

\* C2: once the stored status is CLOSED it never changes again, under any
\* interleaving of send_message, send_agent_message and close_session.
C2_ClosedTerminal ==
    [][\A s \in 1..Len(sessions) : Status(s) = CLOSED => sessions'[s].status = CLOSED]_vars

\* C3: send_message on a session it finds CLOSED is rejected: it does not go on to
\* the engine, and no commit of it appends a message or changes a session field.
C3_ClosedRejected ==
    [][\A t \in Threads :
          /\ Moves(t, "idle", "gr53") => loc'[t].rd # CLOSED
          /\ (loc[t].op = "send" /\ loc[t].rd = CLOSED /\ Moves(t, "sm139", "sm145"))
                => (messages' = messages /\ sessions' = sessions)]_vars

\* C4: close_session on a session that is already CLOSED reports failure and leaves
\* status and closed_at as they were; closed_at is written only once.
C4_CloseOnClosedNoop ==
    [][/\ \A t \in Threads :
            (loc[t].op = "close" /\ loc[t].rd = CLOSED /\ Moves(t, "cl198", "idle"))
                => (resp'.code # "200" /\ sessions' = sessions)
       /\ \A s \in 1..Len(sessions) :
            sessions[s].closed_at # Null
                => sessions'[s].closed_at = sessions[s].closed_at]_vars

\* C5: send_agent_message goes on to append exactly one AGENT message and answer
\* success if and only if the session exists with status ESCALATED when it is
\* loaded; otherwise it answers failure and changes no message and no session.
C5_AgentMessage ==
    [][/\ Answered("agent")
            => /\ resp'.code = "400"
               /\ ~(Exists(resp'.sid) /\ Status(resp'.sid) = ESCALATED)
               /\ messages' = messages /\ sessions' = sessions
       /\ \A t \in Threads :
          /\ Moves(t, "idle", "ag191")
                => (Exists(loc'[t].sid) /\ Status(loc'[t].sid) = ESCALATED)
          /\ Moves(t, "ag191", "idle")
                => /\ resp'.op = "agent" /\ resp'.code = "200"
                   /\ messages' = [messages EXCEPT ![loc[t].sid] = Append(@, AgentMsg)]
                   /\ sessions' = sessions]_vars

\* C5 witness: an agent message was accepted and stored on an escalated session.
C5_Witness ==
    /\ resp.op = "agent" /\ resp.code = "200"
    /\ Last(messages[resp.sid]) = AgentMsg
    /\ Status(resp.sid) = ESCALATED

\* C6: send_message with a session id that does not exist, or whose owner is another
\* user, answers 404 without asking the engine, adds no message and changes no
\* session; it goes on to the engine only for an existing session of that user.
C6_SessionNotFound ==
    [][/\ \A t \in Threads :
            Moves(t, "idle", "gr53")
                => (Exists(loc'[t].sid) /\ sessions[loc'[t].sid].user = loc'[t].uid)
       /\ (Answered("send") /\ resp'.code = "404")
            => /\ ~(Exists(resp'.sid) /\ sessions[resp'.sid].user = resp'.uid)
               /\ UNCHANGED <<sessions, messages, pending, engineVars>>]_vars

\* C6 witness: a send_message for an existing session of another user was refused.
C6_Witness ==
    /\ resp.op = "send" /\ resp.code = "404"
    /\ Exists(resp.sid) /\ sessions[resp.sid].user # resp.uid

\* The commit of a send_message on session s appended the pair (USER, BOT).
PairAppended(s) ==
    /\ Len(messages'[s]) = Len(messages[s]) + 2
    /\ SubSeq(messages'[s], 1, Len(messages[s])) = messages[s]
    /\ messages'[s][Len(messages[s]) + 1] = UserMsg
    /\ messages'[s][Len(messages[s]) + 2].type = "bot"

\* C7: when send_message commits on a session that is ACTIVE, the status becomes
\* ESCALATED exactly when the engine returned escalate=true; then escalated_at is
\* set and the BOT message is an escalation trigger; otherwise the status stays
\* ACTIVE, escalated_at stays unset and the BOT message carries the matched answer
\* and is no trigger.  The status returned is the stored status.
C7_ActiveDecision ==
    [][\A t \in Threads :
          LET s == loc[t].sid IN
          /\ (Moves(t, "sm139", "sm145") /\ Status(s) = ACTIVE)
                => /\ PairAppended(s)
                   /\ Last(messages'[s]).trigger = loc[t].esc
                   /\ IF loc[t].esc
                      THEN /\ sessions'[s].status = ESCALATED
                           /\ sessions'[s].escalated_at # Null
                      ELSE /\ sessions'[s].status = ACTIVE
                           /\ sessions'[s].escalated_at = Null
                           /\ Last(messages'[s]).content = "answer"
          /\ Moves(t, "sm145", "idle")
                => /\ resp'.op = "send" /\ resp'.code = "200"
                   /\ resp'.status = sessions'[s].status
                   /\ resp'.esc = loc[t].esc]_vars

\* C7 witness: a send_message on an ACTIVE session escalated it and returned.
C7_Witness ==
    /\ resp.op = "send" /\ resp.code = "200" /\ resp.esc
    /\ resp.status = ESCALATED
    /\ Status(resp.sid) = ESCALATED
    /\ sessions[resp.sid].escalated_at # Null
    /\ Last(messages[resp.sid]).trigger

C9_AtomicTriple ==
    [][/\ \A s \in 1..Len(sessions) :
            /\ \/ messages'[s] = messages[s]
               \/ /\ messages'[s] = Append(messages[s], Last(messages'[s]))
                  /\ Last(messages'[s]) \in {AgentMsg, WelcomeMsg}
               \/ /\ PairAppended(s)
                  /\ (Last(messages'[s]).trigger /\ Status(s) = ACTIVE)
                        => (sessions'[s].status = ESCALATED
                              /\ sessions'[s].escalated_at # Null)
            /\ (Status(s) # ESCALATED /\ sessions'[s].status = ESCALATED)
                  => (PairAppended(s) /\ Last(messages'[s]).trigger)
       /\ \A t \in Threads :
            (loc[t].op = "send" /\ pc'[t] = "idle" /\ resp'.code = "500")
                => (UNCHANGED <<sessions, messages>> /\ pending'[t] = <<>>)]_vars

\* C9 witness: one send_message ended in an exception after adding its USER message,
\* which is nowhere to be seen, while another one has committed its pair.
C9_Witness ==
    /\ resp.op = "send" /\ resp.code = "500"
    /\ Exists(resp.sid)
    /\ \E t \in Threads :
          /\ pc[t] = "sm145"
          /\ Len(messages[loc[t].sid]) = 3
          /\ \A s \in 1..Len(sessions) :
                Len(messages[s]) = 3 \/ \A i \in 1..Len(messages[s]) :
                                           messages[s][i].type # "user"

\* The result get_response handed to send_message was computed from one build.
OneBuild(l) ==
    /\ l.tv.st = "set"
    /\ l.kv = l.tv
    /\ l.content = "answer" => l.av = l.tv

\* C10: every get_response computes its result from a vectorizer, vectors, questions
\* and answers of one and the same build, also while retrain_model runs: none ends
\* on an unfitted vectorizer, an empty list or mismatched vectors.
C10_RebuildAtomic ==
    /\ \A t \in Threads : pc[t] \in {"sm130", "sm139", "sm145"} => OneBuild(loc[t])
    /\ (resp.op = "send" /\ resp.code = "500") => resp.content = "AttributeError"

\* The lines of _initialize and _load_knowledge_base (services 22-48).
BuildLines == {"in24", "in29", "in30", "in31", "lk38", "lk44", "lk45", "lk47", "lk48", "lk48w"}

\* Thread t is inside a build that get_response started at line 54.
InLazyBuild(t) == pc[t] \in BuildLines /\ loc[t].caller = "query"

\* C11: the lazy build of get_response runs once: while one thread is inside the
\* build started by its get_response, no other thread's get_response starts one.
C11_SingleLazyBuild ==
    \A t, u \in Threads : (InLazyBuild(t) /\ InLazyBuild(u)) => t = u

\* C12: on an engine on which _initialize never ran, get_response goes on to build
\* the index at line 54; the missing index state does not make it fail.
C12_LazyFirstBuild ==
    [][\A t \in Threads :
          (knowledge_vectors = Unset /\ pc[t] = "gr53" /\ pc'[t] # "gr53")
              => pc'[t] = "in24"]_vars

\* The sessions of user u that are not CLOSED.
OpenSessions(u) ==
    {s \in 1..Len(sessions) : sessions[s].user = u /\ Status(s) # CLOSED}

\* C14: every user has at most one session whose status is not CLOSED, also when
\* the dashboard is opened twice at the same time or while a session is ESCALATED.
C14_OneOpenSession ==
    \A u \in Users : Cardinality(OpenSessions(u)) <= 1

\* C15: get_chat_history answers without failing, returns the empty sequence for a
\* session that is absent or owned by another user, and changes no session, no
\* message, no pending row and no engine attribute.
C15_HistoryPureRead ==
    [][Answered("history")
          => /\ resp'.code = "200"
             /\ ~(Exists(resp'.sid) /\ sessions[resp'.sid].user = resp'.uid)
                   => resp'.hist = <<>>
             /\ UNCHANGED <<sessions, messages, kbVersion, pending, engineVars>>]_vars

\* C15 witness: the history of an existing session that holds messages was asked for
\* by another user, and the answer was empty.
C15_Witness ==
    /\ resp.op = "history" /\ resp.code = "200"
    /\ Exists(resp.sid) /\ sessions[resp.sid].user # resp.uid
    /\ messages[resp.sid] # <<>>
    /\ resp.hist = <<>>

\* q is the welcome message followed by (USER, BOT) pairs.
WelcomeThenPairs(q) ==
    /\ Len(q) % 2 = 1
    /\ q[1] = WelcomeMsg
    /\ \A i \in 2..Len(q) : q[i].type = IF i % 2 = 0 THEN "user" ELSE "bot"

C22_StatusTimestamps ==
    \A s \in 1..Len(sessions) :
        /\ Status(s) = ACTIVE
              => (sessions[s].escalated_at = Null /\ sessions[s].closed_at = Null)
        /\ Status(s) = ESCALATED
              => (sessions[s].escalated_at # Null /\ sessions[s].closed_at = Null)
        /\ Status(s) = CLOSED => sessions[s].closed_at # Null

\* No thread is inside _initialize or _load_knowledge_base, or about to return
\* from retrain_model.
BuildsReturned == \A t \in Threads : pc[t] \notin BuildLines \cup {"rt74"}

\* C23: once every retrain_model and lazy build has returned, the vectorizer, the
\* vectors, the questions and the answers are those of one fit over the latest
\* committed knowledge base.
C23_RebuildsConverge ==
    (BuildsReturned /\ vectorizer # Unset)
        => /\ vectorizer = Val(kbVersion)
           /\ knowledge_vectors = Val(kbVersion)
           /\ questions = Val(kbVersion)
           /\ answers = Val(kbVersion)

\* C24: a session holds a BOT message that is an escalation trigger only if its
\* escalated_at is set.
C24_TriggerMeansEscalated ==
    \A s \in 1..Len(sessions) :
        (\E i \in 1..Len(messages[s]) : messages[s][i].trigger)
            => sessions[s].escalated_at # Null

(***************************************************************************)
(* Properties of EngineSpec                                                *)
(***************************************************************************)
\* The last call was a get_response that returned, and the index is installed.
Returned == result.op = "query" /\ result.code = "200" /\ engine.knowledge_vectors.st = "set"

\* C13: a retrain_model that raises leaves the index that was installed before it
\* as it was: vectorizer, vectors, questions and answers are unchanged.
C13_FailedRebuildKeepsIndex ==
    [][(engine.knowledge_vectors.st = "set" /\ result'.op = "admin"
           /\ result'.raised # "none")
         => engine' = engine]_vars

\* C17: on an installed index get_response returns the maximum similarity; when it
\* is at least the threshold (equal included) it returns escalate=false and the
\* answer of the earliest entry that has the maximum, otherwise escalate=true and
\* the hand-off message.
C17_ThresholdDecision ==
    Returned =>
        LET sims == Similarities(engine, result.input)
            best == {i \in DOMAIN sims : \A j \in DOMAIN sims : sims[j] <= sims[i]}
            first == CHOOSE i \in best : \A j \in best : i <= j
        IN  /\ result.similarity = sims[first]
            /\ IF sims[first] >= result.threshold
               THEN ~result.escalate /\ result.answer = engine.answers.v[first]
               ELSE result.escalate /\ result.answer = "fallback"

\* C17 witness: two entries with different answers tie for the maximum, which is
\* equal to the threshold; the answer returned is the earlier entry's.
C17_Witness ==
    /\ Returned /\ ~result.escalate
    /\ result.similarity = result.threshold
    /\ Len(engine.answers.v) = 2
    /\ engine.answers.v[1] # engine.answers.v[2]
    /\ Similarities(engine, result.input)[1] = Similarities(engine, result.input)[2]
    /\ result.answer = engine.answers.v[1]

\* C18: a get_response whose text is the question text of an entry of the installed
\* index returns similarity 1.0 and escalate=false, whatever the text is.
C18_SelfSimilarity ==
    (Returned /\ \E i \in DOMAIN engine.questions.v : engine.questions.v[i] = result.input)
        => (result.similarity = 100 /\ ~result.escalate)

\* C19: an installed index holds at least one document and as many vectors as
\* questions and answers; when no knowledge base row is active it holds exactly the
\* built-in greeting pairs, and get_response("hello") then returns a greeting answer
\* with escalate=false.
C19_IndexNeverEmpty ==
    LET noActive == \A i \in DOMAIN knowledge_base : ~knowledge_base[i].is_active
    IN  /\ engine.knowledge_vectors.st = "set"
            => /\ Len(engine.knowledge_vectors.v) >= 1
               /\ Len(engine.knowledge_vectors.v) = Len(engine.questions.v)
               /\ Len(engine.answers.v) = Len(engine.questions.v)
               /\ noActive => /\ engine.questions.v = GreetingQuestions
                              /\ engine.answers.v = GreetingAnswers
        /\ (result.op = "query" /\ result.code = "200" /\ result.input = <<"hello">>
               /\ noActive)
            => /\ ~result.escalate
               /\ \E i \in DOMAIN GreetingAnswers : result.answer = GreetingAnswers[i]

\* C19 witness: the knowledge base has rows but none is active, and
\* get_response("hello") returned the first greeting answer.
C19_Witness ==
    /\ knowledge_base # <<>>
    /\ \A i \in DOMAIN knowledge_base : ~knowledge_base[i].is_active
    /\ result.op = "query" /\ result.input = <<"hello">>
    /\ result.answer = GreetingAnswers[1] /\ ~result.escalate
    /\ engine.questions.v = GreetingQuestions

\* The rows of the knowledge base that are active, in table order.
ActiveRows == SelectSeq(knowledge_base, IsActive)

\* C20: when a knowledge base POST, PUT or DELETE has answered success, the engine
\* holds an index built from the rows as they are after the mutation: questions and
\* answers are those of the active rows, the vectorizer is fitted on them and the
\* vectors are theirs; the index stays that until the next mutation, so a later
\* get_response that does not escalate returns the answer of an active row.
C20_RebuildAfterMutation ==
    LET qs == [i \in DOMAIN ActiveRows |-> ActiveRows[i].question]
        as == [i \in DOMAIN ActiveRows |-> ActiveRows[i].answer]
    IN  /\ (result.op = "admin" /\ result.code = "200")
            => engine.knowledge_vectors.st = "set"
        /\ (engine.knowledge_vectors.st = "set" /\ ActiveRows # <<>>)
            => /\ engine.questions = Attr(qs)
               /\ engine.answers = Attr(as)
               /\ engine.vectorizer = Attr(qs)
               /\ engine.knowledge_vectors = Attr(FitTransform(qs))
        /\ (result.op = "query" /\ result.code = "200" /\ ~result.escalate
               /\ ActiveRows # <<>>)
            => \E i \in DOMAIN ActiveRows : result.answer = ActiveRows[i].answer

\* C20 witness: after an entry was switched off, a get_response was answered from
\* the one entry that is still active.
C20_Witness ==
    /\ Len(knowledge_base) = 2
    /\ ~knowledge_base[1].is_active /\ knowledge_base[2].is_active
    /\ knowledge_base[1].answer # knowledge_base[2].answer
    /\ result.op = "query" /\ ~result.escalate
    /\ result.answer = knowledge_base[2].answer
    /\ Len(engine.questions.v) = 1

(***************************************************************************)
(* Properties of HistorySpec                                               *)
(***************************************************************************)
\* C21: get_chat_history returns the session's messages in creation order, also
\* when messages carry the same timestamp; and a second call with no write to the
\* session in between returns the same sequence as the first.
C21_HistoryCreationOrder ==
    [][\A sid \in SessionIds :
          (history' # history /\ history'.sid = sid)
              => /\ history'.rows = RowsOf(sid)
                 /\ (history.sid = sid /\ Len(history.rows) = Len(RowsOf(sid)))
                       => history'.rows = history.rows]_vars

====
